---- MODULE Spec2Model ----
(***************************************************************************)
(* HassILExpressionListener (parser/hassil/expression_listener.py): the    *)
(* listener that turns the parse events of the sentence-template grammar   *)
(* into Sentence / Sequence / Expression trees.                            *)
(*                                                                         *)
(* Python objects are references, so Sequence objects live in a heap and   *)
(* are named by their allocation index; _sequences, _sentence, sentences   *)
(* and the items lists hold references.                                    *)
(***************************************************************************)
EXTENDS Integers, Sequences, FiniteSets, TLC

(* ------------------------------ bounds --------------------------------- *)
\* Events one listener receives from an arbitrary event source.
MaxEvents == 7
\* Characters of a word token whose classification is enumerated.
MaxTokenLen == 4

(* --------------------------- the data model ---------------------------- *)
\* GROUP_MARKER = None: the stack entry that separates scopes.
GROUP_MARKER == 0

\* SequenceType
GROUP == "GROUP"
ALTERNATIVE == "ALTERNATIVE"

\* Expressions held in an items list.  A nested Sequence is a reference.
Word(text) == [kind |-> "Word", text |-> text, ref |-> 0, args |-> <<>>]
RuleReference(name) == [kind |-> "RuleReference", text |-> name, ref |-> 0, args |-> <<>>]
ListReference(name) == [kind |-> "ListReference", text |-> name, ref |-> 0, args |-> <<>>]
SeqRef(id) == [kind |-> "Sequence", text |-> "", ref |-> id, args |-> <<>>]

\* Word.empty()
WordEmpty == Word("")

\* Sequence(type=..., items=...)
Sequence(type, items) == [type |-> type, items |-> items]

\* Number(value) and NumberRange(lower_bound, upper_bound, step)
Number(n) == [kind |-> "Number", text |-> "", ref |-> 0, args |-> <<n>>]
NumberRange(l, u, s) == [kind |-> "NumberRange", text |-> "", ref |-> 0, args |-> <<l, u, s>>]

\* ctx.STRING().getText() of the word-token events, as character sequences,
\* and the names of the rule-reference and list-reference events.
WordTokens == {<<"a">>}
RuleNames == {"r"}
ListNames == {"l"}

VARIABLES
    sentences,   \* self.sentences: references of the sealed Sentences
    _sentence,   \* self._sentence: reference of the open Sentence, 0 = None
    _sequences,  \* self._sequences: references, GROUP_MARKER between scopes
    heap,        \* the Sequence objects allocated so far, by reference
    err,         \* "" or the error that aborted the walk
    trace,       \* events dispatched since the last start-sentence
    stacks,      \* self._sequences as each event of trace found it
    built,       \* the trace of each sealed Sentence, parallel to sentences
    nevents,     \* events dispatched so far
    lines,       \* the argument of parse_sentences
    input,       \* events of the parse tree the walker has still to dispatch
    pc           \* "events": handlers called by any event source;
                 \* "walk": inside walker.walk; "return": parse_sentences returned

vars == <<sentences, _sentence, _sequences, heap, err, trace, stacks, built,
          nevents, lines, input, pc>>

Front(s) == SubSeq(s, 1, Len(s) - 1)
Last(s) == s[Len(s)]

\* __init__
Init ==
    /\ sentences = <<>>
    /\ _sentence = 0
    /\ _sequences = <<>>
    /\ heap = <<>>
    /\ err = ""
    /\ trace = <<>>
    /\ stacks = <<>>
    /\ built = <<>>
    /\ nevents = 0
    /\ lines = <<>>
    /\ input = <<>>
    /\ pc = "events"

(* -------------------------- stack properties --------------------------- *)
\* last_sequence: [ok, seq, err]
last_sequence(stack) ==
    IF stack = <<>> THEN [ok |-> FALSE, seq |-> 0, err |-> "No target sequence"]
    ELSE IF Last(stack) = GROUP_MARKER
         THEN [ok |-> FALSE, seq |-> 0, err |-> "Invalid target sequence"]
         ELSE [ok |-> TRUE, seq |-> Last(stack), err |-> ""]

\* ParentScan that does not stop at a marker.
RECURSIVE ParentScan_IgnoreMarker(_, _)
ParentScan_IgnoreMarker(stack, parent) ==
    IF stack = <<>> THEN parent
    ELSE IF Last(stack) = GROUP_MARKER THEN ParentScan_IgnoreMarker(Front(stack), parent)
         ELSE ParentScan_IgnoreMarker(Front(stack), Last(stack))

\* The loop of last_parent_sequence: walk the stack from the top, keep the
\* last entry seen before the first marker (None when the top is a marker).
RECURSIVE ParentScan(_, _)
ParentScan(stack, parent) ==
    IF stack = <<>> THEN parent
    ELSE IF Last(stack) = GROUP_MARKER THEN parent
         ELSE ParentScan(Front(stack), Last(stack))

\* last_parent_sequence: [ok, seq, err]
last_parent_sequence(stack) ==
    IF stack = <<>> THEN [ok |-> FALSE, seq |-> 0, err |-> "No target sequence"]
    ELSE LET parent_sequence == ParentScan(stack, 0)
         IN IF parent_sequence = 0
            THEN [ok |-> FALSE, seq |-> 0, err |-> "No parent sequence"]
            ELSE [ok |-> TRUE, seq |-> parent_sequence, err |-> ""]

\* The while loop of _pop_group: pop until the top is a marker.  Indexing
\* the emptied list raises IndexError.
\* PopLoop that pops at most one more entry.
PopLoop_Once(stack, item) ==
    IF stack = <<>> THEN [ok |-> FALSE, item |-> item, stack |-> stack, err |-> "IndexError"]
    ELSE IF Last(stack) = GROUP_MARKER
         THEN [ok |-> TRUE, item |-> item, stack |-> stack, err |-> ""]
         ELSE [ok |-> TRUE, item |-> Last(stack), stack |-> Front(stack), err |-> ""]

RECURSIVE PopLoop(_, _)
PopLoop(stack, item) ==
    IF stack = <<>> THEN [ok |-> FALSE, item |-> item, stack |-> stack, err |-> "IndexError"]
    ELSE IF Last(stack) = GROUP_MARKER
         THEN [ok |-> TRUE, item |-> item, stack |-> stack, err |-> ""]
         ELSE PopLoop(Front(stack), Last(stack))

\* _pop_group that leaves the marker on the stack.
_pop_group_KeepMarker(stack) ==
    IF Len(stack) <= 1
    THEN [ok |-> FALSE, item |-> 0, stack |-> stack, err |-> "Bad sequence stack"]
    ELSE LET r == PopLoop(Front(stack), Last(stack))
         IN IF ~r.ok THEN r
            ELSE IF r.item = GROUP_MARKER
                 THEN [ok |-> FALSE, item |-> 0, stack |-> r.stack, err |-> "Invalid last sequence"]
                 ELSE [ok |-> TRUE, item |-> r.item, stack |-> r.stack, err |-> ""]

\* _pop_group: [ok, item, stack, err]; stack is the list as the call leaves it.
_pop_group(stack) ==
    IF Len(stack) <= 1
    THEN [ok |-> FALSE, item |-> 0, stack |-> stack, err |-> "Bad sequence stack"]
    ELSE LET r == PopLoop(Front(stack), Last(stack))
         IN IF ~r.ok THEN r
            ELSE IF r.item = GROUP_MARKER
                 THEN [ok |-> FALSE, item |-> 0, stack |-> r.stack, err |-> "Invalid last sequence"]
                 ELSE [ok |-> TRUE, item |-> r.item, stack |-> Front(r.stack), err |-> ""]

\* AppendItem that inserts at the front.
AppendItem_Prepend(h, id, e) == [h EXCEPT ![id].items = <<e>> \o @]

\* x.items.append(e) on the object referenced by id
AppendItem(h, id, e) == [h EXCEPT ![id].items = Append(@, e)]

(* ------------------------------- events -------------------------------- *)
\* One call of a handler by the tree walker: the handler and what it reads
\* from ctx (the token text of a word, the name of a rule or list).
Event(ev, raw, name) == [ev |-> ev, raw |-> raw, name |-> name]

StructuralEvents ==
    {"start-sentence", "end-sentence", "start-group", "end-group",
     "start-optional", "end-optional", "alt"}

\* What an arbitrary event source may send next.
AnyEvent ==
    {Event(ev, <<>>, "") : ev \in StructuralEvents}
        \cup {Event("rule", <<>>, name) : name \in RuleNames}
        \cup {Event("list", <<>>, name) : name \in ListNames}
        \cup {Event("word", raw, "") : raw \in WordTokens}

(* ------------------------- token classification ------------------------ *)
IsSpace(c) == c \in {" ", "\t", "\n"}
IsDigit(c) == c \in {"0", "1", "2", "3", "4", "5", "6", "7", "8", "9"}
DigitVal(c) ==
    CASE c = "0" -> 0 [] c = "1" -> 1 [] c = "2" -> 2 [] c = "3" -> 3 [] c = "4" -> 4
      [] c = "5" -> 5 [] c = "6" -> 6 [] c = "7" -> 7 [] c = "8" -> 8 [] c = "9" -> 9

RECURSIVE LStrip(_)
LStrip(cs) == IF cs # <<>> /\ IsSpace(Head(cs)) THEN LStrip(Tail(cs)) ELSE cs
RECURSIVE RStrip(_)
RStrip(cs) == IF cs # <<>> /\ IsSpace(Last(cs)) THEN RStrip(Front(cs)) ELSE cs
\* str.strip()
Strip(cs) == RStrip(LStrip(cs))

\* remove_escapes: a backslash and the character after it become that character.
RECURSIVE remove_escapes(_)
remove_escapes(cs) ==
    IF cs = <<>> THEN <<>>
    ELSE IF Head(cs) = "\\" /\ Len(cs) >= 2
         THEN <<cs[2]>> \o remove_escapes(SubSeq(cs, 3, Len(cs)))
         ELSE <<Head(cs)>> \o remove_escapes(Tail(cs))

\* remove_quotes: one matching outer pair of quotes, around the whole text.
remove_quotes(cs) ==
    IF Len(cs) >= 2 /\ Head(cs) \in {"\"", "'"} /\ Last(cs) = Head(cs)
    THEN SubSeq(cs, 2, Len(cs) - 1)
    ELSE cs

AllDigits(cs) == cs # <<>> /\ \A i \in 1..Len(cs) : IsDigit(cs[i])
RECURSIVE DigitsVal(_)
DigitsVal(cs) == IF cs = <<>> THEN 0 ELSE 10 * DigitsVal(Front(cs)) + DigitVal(Last(cs))

\* int(text) of an optionally signed digit string
IsInt(cs) == IF cs # <<>> /\ Head(cs) = "-" THEN AllDigits(Tail(cs)) ELSE AllDigits(cs)
IntVal(cs) == IF Head(cs) = "-" THEN 0 - DigitsVal(Tail(cs)) ELSE DigitsVal(cs)

\* NUMBER_PATTERN.match(text) is not None
NUMBER_PATTERN(cs) == IsInt(cs)

\* The splits lower..upper and lower..upper..step of a text.
RangeSplits(cs) ==
    {<<i, j>> \in (1..Len(cs)) \X (0..Len(cs)) :
        /\ i + 1 <= Len(cs) /\ cs[i] = "." /\ cs[i + 1] = "."
        /\ IsInt(SubSeq(cs, 1, i - 1))
        /\ IF j = 0
           THEN IsInt(SubSeq(cs, i + 2, Len(cs)))
           ELSE /\ j > i + 1 /\ j + 1 <= Len(cs) /\ cs[j] = "." /\ cs[j + 1] = "."
                /\ IsInt(SubSeq(cs, i + 2, j - 1))
                /\ AllDigits(SubSeq(cs, j + 2, Len(cs)))}

\* NUMBER_RANGE_PATTERN.match(text) is not None
NUMBER_RANGE_PATTERN(cs) == RangeSplits(cs) # {}

RECURSIVE Text(_)
Text(cs) == IF cs = <<>> THEN "" ELSE Head(cs) \o Text(Tail(cs))

\* Classify with the step group of a range never read.
Classify_StepIgnored(raw) ==
    LET word_text == remove_quotes(remove_escapes(Strip(raw)))
    IN IF NUMBER_PATTERN(word_text) THEN Number(IntVal(word_text))
       ELSE IF NUMBER_RANGE_PATTERN(word_text)
            THEN LET m == CHOOSE m \in RangeSplits(word_text) : TRUE
                     i == m[1]
                     j == IF m[2] = 0 THEN Len(word_text) + 1 ELSE m[2]
                 IN NumberRange(IntVal(SubSeq(word_text, 1, i - 1)),
                                IntVal(SubSeq(word_text, i + 2, j - 1)), 1)
            ELSE Word(Text(word_text))

\* The item enterWord builds from the token's text.
Classify(raw) ==
    LET word_text == remove_quotes(remove_escapes(Strip(raw)))
    IN IF NUMBER_PATTERN(word_text) THEN Number(IntVal(word_text))
       ELSE IF NUMBER_RANGE_PATTERN(word_text)
            THEN LET m == CHOOSE m \in RangeSplits(word_text) : TRUE
                     i == m[1]
                     j == m[2]
                 IN IF j = 0
                    THEN NumberRange(IntVal(SubSeq(word_text, 1, i - 1)),
                                     IntVal(SubSeq(word_text, i + 2, Len(word_text))), 1)
                    ELSE NumberRange(IntVal(SubSeq(word_text, 1, i - 1)),
                                     IntVal(SubSeq(word_text, i + 2, j - 1)),
                                     DigitsVal(SubSeq(word_text, j + 2, Len(word_text))))
            ELSE Word(Text(word_text))

(* ------------------------------ handlers ------------------------------- *)
Running == err = ""

\* enterSentence that pushes the Sentence on the stack it finds.
enterSentence_KeepStack ==
    /\ Running
    /\ heap' = Append(heap, Sequence(GROUP, <<>>))
    /\ _sentence' = Len(heap) + 1
    /\ _sequences' = Append(_sequences, Len(heap) + 1)
    /\ trace' = <<Event("start-sentence", <<>>, "")>>
    /\ stacks' = <<_sequences>>
    /\ UNCHANGED <<sentences, err, built>>

enterSentence ==
    /\ Running
    /\ heap' = Append(heap, Sequence(GROUP, <<>>))
    /\ _sentence' = Len(heap) + 1
    /\ _sequences' = <<Len(heap) + 1>>
    /\ trace' = <<Event("start-sentence", <<>>, "")>>
    /\ stacks' = <<_sequences>>
    /\ UNCHANGED <<sentences, err, built>>

\* exitSentence that puts the Sentence in front of the others.
exitSentence_Prepend ==
    /\ Running
    /\ trace' = Append(trace, Event("end-sentence", <<>>, ""))
    /\ stacks' = Append(stacks, _sequences)
    /\ IF _sentence = 0
       THEN /\ err' = "No sentence started"
            /\ UNCHANGED <<sentences, _sentence, _sequences, built>>
       ELSE /\ sentences' = <<_sentence>> \o sentences
            /\ built' = <<trace'>> \o built
            /\ _sentence' = 0
            /\ _sequences' = <<>>
            /\ err' = ""
    /\ UNCHANGED heap

\* exitSentence that keeps the current sentence and the stack.
exitSentence_NoReset ==
    /\ Running
    /\ trace' = Append(trace, Event("end-sentence", <<>>, ""))
    /\ stacks' = Append(stacks, _sequences)
    /\ IF _sentence = 0
       THEN /\ err' = "No sentence started"
            /\ UNCHANGED <<sentences, built>>
       ELSE /\ sentences' = Append(sentences, _sentence)
            /\ built' = Append(built, trace')
            /\ err' = ""
    /\ UNCHANGED <<heap, _sentence, _sequences>>

exitSentence ==
    /\ Running
    /\ trace' = Append(trace, Event("end-sentence", <<>>, ""))
    /\ stacks' = Append(stacks, _sequences)
    /\ IF _sentence = 0
       THEN /\ err' = "No sentence started"
            /\ UNCHANGED <<sentences, _sentence, _sequences, built>>
       ELSE /\ sentences' = Append(sentences, _sentence)
            /\ built' = Append(built, trace')
            /\ _sentence' = 0
            /\ _sequences' = <<>>
            /\ err' = ""
    /\ UNCHANGED heap

\* PushScope with the marker pushed after the new GROUP.
PushScope_MarkerLast ==
    /\ Running
    /\ heap' = Append(heap, Sequence(GROUP, <<>>))
    /\ _sequences' = _sequences \o <<Len(heap) + 1, GROUP_MARKER>>
    /\ UNCHANGED <<sentences, _sentence, err, built>>

\* enterGroup and enterOptional: push the marker, then a new GROUP.
PushScope ==
    /\ Running
    /\ heap' = Append(heap, Sequence(GROUP, <<>>))
    /\ _sequences' = _sequences \o <<GROUP_MARKER, Len(heap) + 1>>
    /\ UNCHANGED <<sentences, _sentence, err, built>>

enterGroup ==
    /\ PushScope
    /\ trace' = Append(trace, Event("start-group", <<>>, ""))
    /\ stacks' = Append(stacks, _sequences)

enterOptional ==
    /\ PushScope
    /\ trace' = Append(trace, Event("start-optional", <<>>, ""))
    /\ stacks' = Append(stacks, _sequences)

exitGroup ==
    /\ Running
    /\ trace' = Append(trace, Event("end-group", <<>>, ""))
    /\ stacks' = Append(stacks, _sequences)
    /\ LET p == _pop_group(_sequences)
           t == last_sequence(p.stack)
       IN /\ _sequences' = p.stack
          /\ IF ~p.ok THEN err' = p.err /\ heap' = heap
             ELSE IF ~t.ok THEN err' = t.err /\ heap' = heap
             ELSE err' = "" /\ heap' = AppendItem(heap, t.seq, SeqRef(p.item))
    /\ UNCHANGED <<sentences, _sentence, built>>

\* OptionalConverted with the empty word left out of an optional that a
\* separator already made an ALTERNATIVE.
OptionalConverted_NoEmptyWordAfterAlt(h, optional) ==
    IF h[optional].type # ALTERNATIVE
    THEN AppendItem(
             IF Len(h[optional].items) > 1
             THEN [Append(h, Sequence(GROUP, h[optional].items))
                      EXCEPT ![optional] = Sequence(ALTERNATIVE, <<SeqRef(Len(h) + 1)>>)]
             ELSE [h EXCEPT ![optional].type = ALTERNATIVE],
             optional, WordEmpty)
    ELSE h

\* OptionalConverted with a single item wrapped in a GROUP as well.
OptionalConverted_WrapSingle(h, optional) ==
    LET wrapped ==
            IF h[optional].type # ALTERNATIVE
            THEN IF Len(h[optional].items) > 0
                 THEN [Append(h, Sequence(GROUP, h[optional].items))
                          EXCEPT ![optional] = Sequence(ALTERNATIVE, <<SeqRef(Len(h) + 1)>>)]
                 ELSE [h EXCEPT ![optional].type = ALTERNATIVE]
            ELSE h
    IN AppendItem(wrapped, optional, WordEmpty)

\* The conversion of exitOptional on the popped optional: the heap after it.
OptionalConverted(h, optional) ==
    LET wrapped ==
            IF h[optional].type # ALTERNATIVE
            THEN IF Len(h[optional].items) > 1
                 THEN [Append(h, Sequence(GROUP, h[optional].items))
                          EXCEPT ![optional] = Sequence(ALTERNATIVE, <<SeqRef(Len(h) + 1)>>)]
                 ELSE [h EXCEPT ![optional].type = ALTERNATIVE]
            ELSE h
    IN AppendItem(wrapped, optional, WordEmpty)

exitOptional ==
    /\ Running
    /\ trace' = Append(trace, Event("end-optional", <<>>, ""))
    /\ stacks' = Append(stacks, _sequences)
    /\ LET p == _pop_group(_sequences)
           t == last_sequence(p.stack)
       IN /\ _sequences' = p.stack
          /\ IF ~p.ok THEN err' = p.err /\ heap' = heap
             ELSE IF ~t.ok THEN err' = t.err /\ heap' = OptionalConverted(heap, p.item)
             ELSE /\ err' = ""
                  /\ heap' = AppendItem(OptionalConverted(heap, p.item), t.seq, SeqRef(p.item))
    /\ UNCHANGED <<sentences, _sentence, built>>

\* AltConverted with the items already held left beside the new branch.
AltConverted_NoWrap(h, sequence) ==
    IF h[sequence].type # ALTERNATIVE
    THEN [h EXCEPT ![sequence].type = ALTERNATIVE]
    ELSE h

\* AltConverted that wraps what the sequence holds even when it holds nothing.
AltConverted_WrapEmpty(h, sequence) ==
    IF h[sequence].type # ALTERNATIVE
    THEN [Append(h, Sequence(GROUP, h[sequence].items))
             EXCEPT ![sequence] = Sequence(ALTERNATIVE, <<SeqRef(Len(h) + 1)>>)]
    ELSE h

\* AltConverted that drops what the sequence holds.
AltConverted_DropItems(h, sequence) ==
    IF h[sequence].type # ALTERNATIVE
    THEN [h EXCEPT ![sequence] = Sequence(ALTERNATIVE, <<>>)]
    ELSE h

\* The conversion of enterAlt on the parent sequence: the heap after it.
AltConverted(h, sequence) ==
    IF h[sequence].type # ALTERNATIVE
    THEN IF h[sequence].items # <<>>
         THEN [Append(h, Sequence(GROUP, h[sequence].items))
                  EXCEPT ![sequence] = Sequence(ALTERNATIVE, <<SeqRef(Len(h) + 1)>>)]
         ELSE [h EXCEPT ![sequence].type = ALTERNATIVE]
    ELSE h

\* enterAlt that does not push the new branch.
enterAlt_NoPush ==
    /\ Running
    /\ trace' = Append(trace, Event("alt", <<>>, ""))
    /\ stacks' = Append(stacks, _sequences)
    /\ LET s == last_parent_sequence(_sequences)
       IN IF ~s.ok THEN err' = s.err /\ UNCHANGED <<heap, _sequences>>
          ELSE LET h == AltConverted(heap, s.seq)
                   next_group == Len(h) + 1
               IN /\ heap' = AppendItem(Append(h, Sequence(GROUP, <<>>)), s.seq, SeqRef(next_group))
                  /\ _sequences' = _sequences
                  /\ err' = ""
    /\ UNCHANGED <<sentences, _sentence, built>>

enterAlt ==
    /\ Running
    /\ trace' = Append(trace, Event("alt", <<>>, ""))
    /\ stacks' = Append(stacks, _sequences)
    /\ LET s == last_parent_sequence(_sequences)
       IN IF ~s.ok THEN err' = s.err /\ UNCHANGED <<heap, _sequences>>
          ELSE LET h == AltConverted(heap, s.seq)
                   next_group == Len(h) + 1
               IN /\ heap' = AppendItem(Append(h, Sequence(GROUP, <<>>)), s.seq, SeqRef(next_group))
                  /\ _sequences' = Append(_sequences, next_group)
                  /\ err' = ""
    /\ UNCHANGED <<sentences, _sentence, built>>

\* self.last_sequence.items.append(item)
AddLeaf(item) ==
    /\ Running
    /\ LET t == last_sequence(_sequences)
       IN IF ~t.ok THEN err' = t.err /\ heap' = heap
          ELSE err' = "" /\ heap' = AppendItem(heap, t.seq, item)
    /\ UNCHANGED <<sentences, _sentence, _sequences, built>>

enterRule(rule_name) ==
    /\ AddLeaf(RuleReference(rule_name))
    /\ trace' = Append(trace, Event("rule", <<>>, rule_name))
    /\ stacks' = Append(stacks, _sequences)

enterList(list_name) ==
    /\ AddLeaf(ListReference(list_name))
    /\ trace' = Append(trace, Event("list", <<>>, list_name))
    /\ stacks' = Append(stacks, _sequences)

enterWord(raw) ==
    /\ AddLeaf(Classify(raw))
    /\ trace' = Append(trace, Event("word", raw, ""))
    /\ stacks' = Append(stacks, _sequences)

(* --------------------------- the front end ----------------------------- *)
\* The grammar's lexer and parser and the ParseTreeWalker: the events of a
\* document text, in the order the walker enters and exits the parse tree.
SpecialChars == {"(", ")", "[", "]", "|", "<", ">", "{", "}"}

\* Length of the longest prefix of cs without a character of stop.
RECURSIVE RunLen(_, _)
RunLen(cs, stop) ==
    IF cs = <<>> \/ Head(cs) \in stop THEN 0 ELSE 1 + RunLen(Tail(cs), stop)

RECURSIVE Lex(_)
Lex(cs) ==
    IF cs = <<>> THEN <<>>
    ELSE LET c == Head(cs)
             rest == Tail(cs)
         IN CASE IsSpace(c) -> Lex(rest)
              [] c = "(" -> <<Event("start-group", <<>>, "")>> \o Lex(rest)
              [] c = ")" -> <<Event("end-group", <<>>, "")>> \o Lex(rest)
              [] c = "[" -> <<Event("start-optional", <<>>, "")>> \o Lex(rest)
              [] c = "]" -> <<Event("end-optional", <<>>, "")>> \o Lex(rest)
              [] c = "|" -> <<Event("alt", <<>>, "")>> \o Lex(rest)
              [] c = "<" ->
                   LET n == RunLen(rest, {">"})
                   IN <<Event("rule", <<>>, Text(SubSeq(rest, 1, n)))>>
                          \o Lex(SubSeq(rest, n + 2, Len(rest)))
              [] c = "{" ->
                   LET n == RunLen(rest, {"}"})
                   IN <<Event("list", <<>>, Text(SubSeq(rest, 1, n)))>>
                          \o Lex(SubSeq(rest, n + 2, Len(rest)))
              [] OTHER ->
                   LET n == RunLen(cs, SpecialChars \cup {" ", "\t", "\n"})
                   IN IF n = 0 THEN Lex(rest)
                      ELSE <<Event("word", SubSeq(cs, 1, n), "")>>
                               \o Lex(SubSeq(cs, n + 1, Len(cs)))

\* parser.document(): one sentence per line that holds a token.
RECURSIVE Document(_)
Document(text) ==
    IF text = <<>> THEN <<>>
    ELSE LET n == RunLen(text, {"\n"})
             line == Lex(SubSeq(text, 1, n))
             sentence == IF line = <<>> THEN <<>>
                         ELSE <<Event("start-sentence", <<>>, "")>> \o line
                                  \o <<Event("end-sentence", <<>>, "")>>
         IN sentence \o Document(SubSeq(text, n + 2, Len(text)))

(* ------------------------------ the driver ----------------------------- *)
\* "\n".join(sentences) + "\n"
RECURSIVE JoinLines(_)
JoinLines(ls) ==
    IF ls = <<>> THEN <<>>
    ELSE IF Len(ls) = 1 THEN Head(ls)
         ELSE Head(ls) \o <<"\n">> \o JoinLines(Tail(ls))

DocumentText(ls) == JoinLines(ls) \o <<"\n">>

\* The template documents compiled.
DocTurnOn ==
    << <<"t","u","r","n"," ","o","n"," ","[","t","h","e","]"," ","l","i","g","h","t">> >>
DocAlt == << <<"(","a"," ","|"," ","b"," ","c",")">> >>
DocAltTwice == DocAlt \o DocAlt
DocNested == << <<"(","a"," ","(","b"," ","|"," ","c",")"," ","d",")">> >>
DocAB == << <<"a">>, <<"b">> >>
DocBlank == << <<" ">>, <<>>, <<" ", "\t">> >>

Docs ==
    { <<>>, << <<>> >>, DocBlank, DocAB, DocTurnOn, DocAlt, DocAltTwice, DocNested,
      << <<"a">>, <<>>, <<"b">> >>,
      << <<"[","a"," ","b","]">> >>,
      << <<"[","a"," ","|"," ","b","]">> >>,
      << <<"<","r",">"," ","{","l","}">> >>,
      << <<"s","e","t"," ","{","l","}"," ","t","o"," ","5">> >> }

parse_sentences ==
    /\ pc = "events"
    /\ nevents = 0
    /\ \E ls \in Docs :
         /\ lines' = ls
         /\ IF Strip(DocumentText(ls)) # <<>>
            THEN input' = Document(DocumentText(ls)) /\ pc' = "walk"
            ELSE input' = <<>> /\ pc' = "return"
    /\ UNCHANGED <<sentences, _sentence, _sequences, heap, err, trace, stacks, built, nevents>>

\* walker.walk returns, or the handler's error leaves it.
walkDone ==
    /\ pc = "walk"
    /\ input = <<>> \/ err # ""
    /\ pc' = "return"
    /\ UNCHANGED <<sentences, _sentence, _sequences, heap, err, trace, stacks, built, nevents,
                   lines, input>>

\* The events that may be dispatched next: the walker's next one, or any.
NextEvents ==
    CASE pc = "walk" -> IF input = <<>> THEN {} ELSE {Head(input)}
      [] pc = "events" -> IF nevents < MaxEvents THEN AnyEvent ELSE {}
      [] OTHER -> {}

Dispatched(e, ev) ==
    /\ e.ev = ev
    /\ nevents' = nevents + 1
    /\ input' = IF pc = "walk" THEN Tail(input) ELSE input
    /\ UNCHANGED <<lines, pc>>

Next ==
    \/ parse_sentences
    \/ walkDone
    \/ \E e \in NextEvents : Dispatched(e, "start-sentence") /\ enterSentence
    \/ \E e \in NextEvents : Dispatched(e, "end-sentence") /\ exitSentence
    \/ \E e \in NextEvents : Dispatched(e, "start-group") /\ enterGroup
    \/ \E e \in NextEvents : Dispatched(e, "end-group") /\ exitGroup
    \/ \E e \in NextEvents : Dispatched(e, "start-optional") /\ enterOptional
    \/ \E e \in NextEvents : Dispatched(e, "end-optional") /\ exitOptional
    \/ \E e \in NextEvents : Dispatched(e, "alt") /\ enterAlt
    \/ \E e \in NextEvents : Dispatched(e, "rule") /\ enterRule(e.name)
    \/ \E e \in NextEvents : Dispatched(e, "list") /\ enterList(e.name)
    \/ \E e \in NextEvents : Dispatched(e, "word") /\ enterWord(e.raw)

Spec == Init /\ [][Next]_vars

(* ---------------------- classification of word tokens ------------------ *)
\* The token texts classified: every text of at most MaxTokenLen characters
\* of TokenChars, and the longer texts of TokenExamples.
TokenChars == {"1", "2", ".", "-", "a", " ", "\\", "\""}

TokenExamples ==
    { <<"h","e","l","l","o">>, <<"1",".",".","1","0">>,
      <<"1",".",".","1","0",".",".","2">>, <<"1",".",".","2",".",".","1">>,
      <<"\"","a"," ","b","\"">>, <<" ","1",".",".","2",".",".","0"," ">>,
      <<"-","1",".",".","-","2">>, <<"1",".",".","2",".",".","-","1">>,
      <<"\\","1",".",".","2">>, <<"\"","1",".",".","2",".",".","2","\"">> }

TokenTexts ==
    UNION {[1..n -> TokenChars] : n \in 0..MaxTokenLen} \cup TokenExamples

\* A listener that is sent a start-sentence event and one word token.
NextWord ==
    \/ /\ nevents = 0
       /\ Dispatched(Event("start-sentence", <<>>, ""), "start-sentence")
       /\ enterSentence
    \/ /\ nevents <= 1
       /\ Running
       /\ \E raw \in TokenTexts :
             /\ Dispatched(Event("word", raw, ""), "word")
             /\ enterWord(raw)

WordSpec == Init /\ [][NextWord]_vars

(* ------------------------ reading the structures ----------------------- *)
\* The tree under a Sequence object, references resolved.
RECURSIVE Tree(_, _)
Tree(h, id) ==
    [type |-> h[id].type,
     items |-> [i \in 1..Len(h[id].items) |->
                  IF h[id].items[i].kind = "Sequence"
                  THEN Tree(h, h[id].items[i].ref)
                  ELSE h[id].items[i]]]

\* Trees written out.
GroupOf(items) == [type |-> GROUP, items |-> items]
AlternativeOf(items) == [type |-> ALTERNATIVE, items |-> items]

\* The leaves under a Sequence object, left to right.
RECURSIVE Leaves(_, _)
RECURSIVE LeavesOfItems(_, _)
Leaves(h, id) == LeavesOfItems(h, h[id].items)
LeavesOfItems(h, items) ==
    IF items = <<>> THEN <<>>
    ELSE (IF Head(items).kind = "Sequence" THEN Leaves(h, Head(items).ref)
          ELSE <<Head(items)>>) \o LeavesOfItems(h, Tail(items))

Count(x, seq) == Cardinality({i \in 1..Len(seq) : seq[i] = x})

\* The step dispatched an event, and which.
EventStep(ev) == nevents' = nevents + 1 /\ Last(trace').ev = ev
LastEvent(ev) == trace # <<>> /\ Last(trace).ev = ev

HasMarker(stack) == \E i \in 1..Len(stack) : stack[i] = GROUP_MARKER
TopMarker(stack) ==
    CHOOSE i \in 1..Len(stack) :
        stack[i] = GROUP_MARKER /\ \A j \in (i + 1)..Len(stack) : stack[j] # GROUP_MARKER
OnStack(id) == \E i \in 1..Len(_sequences) : _sequences[i] = id

LeafEvents == {"word", "rule", "list"}
LeafOf(e) ==
    CASE e.ev = "word" -> Classify(e.raw)
      [] e.ev = "rule" -> RuleReference(e.name)
      [] e.ev = "list" -> ListReference(e.name)

\* The leaves of the leaf events of a trace, in event order.
RECURSIVE LeavesOfTrace(_)
LeavesOfTrace(tr) ==
    IF tr = <<>> THEN <<>>
    ELSE (IF Head(tr).ev \in LeafEvents THEN <<LeafOf(Head(tr))>> ELSE <<>>)
             \o LeavesOfTrace(Tail(tr))

\* Number of Word("") items held by the objects of a heap.
RECURSIVE EmptyWords(_)
EmptyWords(h) ==
    IF h = <<>> THEN 0 ELSE EmptyWords(Front(h)) + Count(WordEmpty, Last(h).items)

Returned(ls) == pc = "return" /\ lines = ls /\ err = ""

(* ------------------------------- claims -------------------------------- *)

\* C1: an end-optional that raises no error attaches, as the last item of the
\* current target, a Sequence of kind ALTERNATIVE whose final item is
\* Word(""), with or without separators inside the optional; the step adds
\* exactly one Word("") to the structures; and an object that is no longer
\* on the stack (an attached node) is never changed again.
C1_OptionalEndsWithEmptyWord ==
    [][ /\ (EventStep("end-optional") /\ err' = "") =>
              LET node == Last(heap'[Last(_sequences')].items)
              IN /\ node.kind = "Sequence"
                 /\ heap'[node.ref].type = ALTERNATIVE
                 /\ Last(heap'[node.ref].items) = WordEmpty
                 /\ EmptyWords(heap') = EmptyWords(heap) + 1
        /\ \A id \in 1..Len(heap) : ~OnStack(id) => heap'[id] = heap[id]
      ]_vars

\* C1 witness: an optional that held a separator has been closed and attached.
C1_Witness ==
    /\ LastEvent("end-optional") /\ err = "" /\ _sequences # <<>>
    /\ LET node == Last(heap[Last(_sequences)].items)
       IN Len(heap[node.ref].items) >= 3 /\ Last(heap[node.ref].items) = WordEmpty

\* C2 as stated: compiling "(a | b c)" gives a root GROUP holding one
\* ALTERNATIVE of two items, the bare Word("a") and GROUP [Word("b"), Word("c")].
C2_SingleBranchIsBareLeaf ==
    Returned(DocAlt) =>
        /\ Len(sentences) = 1
        /\ Tree(heap, sentences[1]) =
               GroupOf(<<AlternativeOf(<<Word("a"), GroupOf(<<Word("b"), Word("c")>>)>>)>>)

\* The sequence a separator converts: the one directly above the topmost
\* marker, the bottom of the stack when there is no marker.
ScopeOfAlt(stack) == IF HasMarker(stack) THEN stack[TopMarker(stack) + 1] ELSE stack[1]

\* C2 amended: compiling "(a | b c)" gives a root GROUP holding one
\* ALTERNATIVE of two items, both nested GROUPs: GROUP [Word("a")] and
\* GROUP [Word("b"), Word("c")].  In general every branch is a nested GROUP,
\* also a branch of exactly one element: after a separator every item of the
\* converted sequence is a GROUP Sequence, what the sequence held before its
\* first separator (one element or more) is the first of them, in order, and
\* the last of them is the new, empty branch on top of the stack.
C2_EveryBranchIsGroup ==
    /\ [](Returned(DocAlt) =>
            /\ Len(sentences) = 1
            /\ Tree(heap, sentences[1]) =
                   GroupOf(<<AlternativeOf(<<GroupOf(<<Word("a")>>),
                                             GroupOf(<<Word("b"), Word("c")>>)>>)>>))
    /\ [][ (EventStep("alt") /\ err' = "") =>
             LET scope == ScopeOfAlt(_sequences)
                 items == heap'[scope].items
             IN /\ heap'[scope].type = ALTERNATIVE
                /\ \A i \in 1..Len(items) :
                       items[i].kind = "Sequence" /\ heap'[items[i].ref].type = GROUP
                /\ (heap[scope].type = GROUP /\ heap[scope].items # <<>>) =>
                       /\ Len(items) = 2
                       /\ heap'[items[1].ref] = Sequence(GROUP, heap[scope].items)
                /\ Last(items).ref = Last(_sequences')
                /\ heap'[Last(_sequences')] = Sequence(GROUP, <<>>)
         ]_vars

\* C2 witness: "(a | b c)" compiled.
C2_Witness == Returned(DocAlt) /\ Len(sentences) = 1

\* The separators of a trace that lie outside every group and optional.
RECURSIVE AltOutsideScope(_, _)
AltOutsideScope(tr, depth) ==
    IF tr = <<>> THEN FALSE
    ELSE CASE Head(tr).ev \in {"start-group", "start-optional"} ->
                  AltOutsideScope(Tail(tr), depth + 1)
           [] Head(tr).ev \in {"end-group", "end-optional"} ->
                  AltOutsideScope(Tail(tr), depth - 1)
           [] Head(tr).ev = "alt" ->
                  depth = 0 \/ AltOutsideScope(Tail(tr), depth)
           [] OTHER -> AltOutsideScope(Tail(tr), depth)

\* C3: a separator that arrives while a sentence is open and no marker is on
\* the stack raises an error and converts nothing, and no Sentence of a
\* stream with such a separator is appended to sentences.
C3_AltOutsideScopeFails ==
    /\ [][ (EventStep("alt") /\ _sentence # 0 /\ ~HasMarker(_sequences)) =>
              (err' # "" /\ heap' = heap /\ _sequences' = _sequences) ]_vars
    /\ [](\A i \in 1..Len(built) : ~AltOutsideScope(built[i], 0))

\* A bracket of leaf events only: start-sentence, leaves, end-sentence.
LeafOnly(tr) ==
    /\ Len(tr) >= 2
    /\ tr[1].ev = "start-sentence"
    /\ Last(tr).ev = "end-sentence"
    /\ \A k \in 2..(Len(tr) - 1) : tr[k].ev \in LeafEvents

\* C4: the Sentence of a bracket start-sentence, n leaf events, end-sentence
\* has a root of kind GROUP whose items are the n leaves of the events, in
\* event order; and a stream that is one such bracket appends one Sentence.
C4_LeafOnlySentence ==
    /\ Len(built) = Len(sentences)
    /\ \A i \in 1..Len(sentences) :
           LeafOnly(built[i]) =>
               heap[sentences[i]] =
                   Sequence(GROUP, [k \in 1..(Len(built[i]) - 2) |-> LeafOf(built[i][k + 1])])
    /\ (built # <<>> /\ LeafOnly(built[1]) /\ nevents = Len(built[1])) => Len(sentences) = 1

\* C4 witness: a sealed bracket of three leaves of different kinds.
C4_Witness ==
    \E i \in 1..Len(sentences) :
        /\ LeafOnly(built[i])
        /\ Len(built[i]) = 5
        /\ Len(heap[sentences[i]].items) = 3
        /\ built[i][2].ev # built[i][3].ev
        /\ built[i][3].ev # built[i][4].ev

\* C5: end-optional on an optional that saw no separator and holds at least
\* one item leaves an ALTERNATIVE of exactly two items: the item itself and
\* Word("") when it held one item, a GROUP of all its items in order and
\* Word("") when it held more; the items the parent held keep their places
\* and the optional comes after them.  "turn on [the] light" compiles to a
\* root GROUP that holds the ALTERNATIVE [Word("the"), Word("")] between the
\* words before it and Word("light").
C5_OptionalWithoutSeparator ==
    /\ [](Returned(DocTurnOn) =>
            /\ Len(sentences) = 1
            /\ LET root == Tree(heap, sentences[1])
               IN /\ root.type = GROUP
                  /\ Len(root.items) >= 3
                  /\ root.items[Len(root.items) - 1] =
                         AlternativeOf(<<Word("the"), WordEmpty>>)
                  /\ Last(root.items) = Word("light")
                  /\ \A k \in 1..(Len(root.items) - 2) : root.items[k].kind = "Word")
    /\ [][ (EventStep("end-optional") /\ err' = "") =>
             LET parent == Last(_sequences')
                 opt == Last(heap'[parent].items).ref
                 old == heap[opt].items
                 new == heap'[opt].items
             IN (heap[opt].type # ALTERNATIVE /\ old # <<>>) =>
                    /\ heap'[opt].type = ALTERNATIVE
                    /\ Len(new) = 2
                    /\ new[2] = WordEmpty
                    /\ IF Len(old) = 1 THEN new[1] = old[1]
                       ELSE /\ new[1].kind = "Sequence"
                            /\ heap'[new[1].ref] = Sequence(GROUP, old)
                    /\ heap'[parent].items = Append(heap[parent].items, SeqRef(opt))
         ]_vars

\* C5 witness: an optional of two items and no separator has been closed
\* after an item of its parent.
C5_Witness ==
    /\ LastEvent("end-optional") /\ err = "" /\ _sequences # <<>>
    /\ LET parent == heap[Last(_sequences)]
           opt == heap[Last(parent.items).ref]
       IN /\ Len(parent.items) = 2
          /\ Len(opt.items) = 2
          /\ opt.items[1].kind = "Sequence"
          /\ Len(heap[opt.items[1].ref].items) = 2
          /\ heap[opt.items[1].ref].items[1].kind # "Sequence"

\* C6: a separator inside a group or optional changes only the sequence
\* directly above the topmost marker: it becomes an ALTERNATIVE, and every
\* other object, the sequences below that marker among them, keeps its kind
\* and its items.  For "(a (b | c) d)" the outer group stays a GROUP of
\* exactly three items: Word("a"), the inner ALTERNATIVE, Word("d").
C6_AltChangesInnermostScopeOnly ==
    /\ [](Returned(DocNested) =>
            /\ Len(sentences) = 1
            /\ LET root == Tree(heap, sentences[1])
                   outer == root.items[1]
               IN /\ Len(root.items) = 1
                  /\ outer.type = GROUP
                  /\ Len(outer.items) = 3
                  /\ outer.items[1] = Word("a")
                  /\ outer.items[2].type = ALTERNATIVE
                  /\ outer.items[3] = Word("d"))
    /\ [][ (EventStep("alt") /\ err' = "" /\ HasMarker(_sequences)) =>
             LET scope == _sequences[TopMarker(_sequences) + 1]
             IN /\ heap'[scope].type = ALTERNATIVE
                /\ heap'[scope] # heap[scope]
                /\ \A id \in 1..Len(heap) : id # scope => heap'[id] = heap[id]
         ]_vars

\* C6 witness: "(a (b | c) d)" compiled, the separator seen two groups deep.
C6_Witness ==
    /\ Returned(DocNested)
    /\ Len(sentences) = 1
    /\ Len(heap[sentences[1]].items) = 1
    /\ Len(Leaves(heap, sentences[1])) = 4

\* C7: an event other than start-sentence that arrives while no sentence is
\* open raises an error at that event and leaves the stack as it was.
C7_EventWithoutSentenceFails ==
    [][ (nevents' = nevents + 1 /\ _sentence = 0 /\ Last(trace').ev # "start-sentence") =>
            (err' # "" /\ _sequences' = _sequences) ]_vars

\* C8: unless an error was raised, every Sentence in sentences holds in its
\* tree every leaf accepted between its start-sentence and its end-sentence.
C8_NoPartialSentence ==
    err = "" =>
        \A i \in 1..Len(sentences) :
            LET accepted == LeavesOfTrace(built[i])
                held == Leaves(heap, sentences[i])
            IN \A k \in 1..Len(accepted) :
                   Count(accepted[k], accepted) <= Count(accepted[k], held)

\* C9: sentences only grows at its end, by the open Sentence of an
\* end-sentence event and by nothing else; the Sentences in it are different
\* objects, in the order they were started; a Sentence in it is not changed
\* any more; ["a", "b"] compiles to two Sentences in input order, an empty
\* list and blank lines dispatch no event and leave sentences empty.
C9_SentencesAppendOnly ==
    /\ [](Len(sentences) = Len(built))
    /\ [](\A i, j \in 1..Len(sentences) : i < j => sentences[i] < sentences[j])
    /\ [](\A ls \in {<<>>, DocBlank} :
            (pc = "return" /\ lines = ls) =>
                (sentences = <<>> /\ nevents = 0 /\ heap = <<>> /\ err = ""))
    /\ [](Returned(DocAB) =>
            /\ Len(sentences) = 2
            /\ Tree(heap, sentences[1]) = GroupOf(<<Word("a")>>)
            /\ Tree(heap, sentences[2]) = GroupOf(<<Word("b")>>))
    /\ [][ /\ IF EventStep("end-sentence") /\ err' = ""
              THEN _sentence # 0 /\ sentences' = Append(sentences, _sentence)
              ELSE sentences' = sentences
           /\ \A i \in 1..Len(sentences) :
                  Tree(heap', sentences[i]) = Tree(heap, sentences[i])
         ]_vars

\* C9 witness: ["a", "b"] compiled to two Sentences.
C9_Witness == Returned(DocAB) /\ Len(sentences) = 2

\* C10: two Sentences built by the same events have equal trees, and
\* end-sentence leaves no open sentence and an empty stack behind.
C10_SameEventsSameTree ==
    /\ [](\A i, j \in 1..Len(sentences) :
            built[i] = built[j] => Tree(heap, sentences[i]) = Tree(heap, sentences[j]))
    /\ [][ (EventStep("end-sentence") /\ err' = "") =>
              (_sentence' = 0 /\ _sequences' = <<>>) ]_vars

\* C10 witness: "(a | b c)" compiled twice in succession by one listener.
C10_Witness ==
    /\ Returned(DocAltTwice)
    /\ Len(sentences) = 2
    /\ built[1] = built[2]
    /\ sentences[1] # sentences[2]
    /\ Len(Leaves(heap, sentences[2])) = 3

\* The text a word token is classified by.
WordText(raw) == remove_quotes(remove_escapes(Strip(raw)))
\* The step group of a range text is present.
HasStepGroup(t) == \E m \in RangeSplits(t) : m[2] # 0

\* The leaf a word event appended, and that it appended nothing else.
AppendedLeaf == Last(heap'[Last(_sequences)].items)
OneLeafAppended ==
    /\ _sequences' = _sequences
    /\ Len(heap') = Len(heap)
    /\ \A id \in 1..Len(heap) :
           IF id = Last(_sequences)
           THEN /\ heap'[id].type = heap[id].type
                /\ Len(heap'[id].items) = Len(heap[id].items) + 1
                /\ Front(heap'[id].items) = heap[id].items
           ELSE heap'[id] = heap[id]

\* C11 as stated: a range token becomes a NumberRange whose step is 1
\* exactly when the step group is absent.
C11_StepOneIffNoStepGroup ==
    [][ (EventStep("word") /\ err' = "" /\ AppendedLeaf.kind = "NumberRange") =>
            (AppendedLeaf.args[3] = 1 <=> ~HasStepGroup(WordText(Last(trace').raw))) ]_vars

\* C11 amended: a word-token event with a current target appends exactly one
\* leaf to it, decided on the whole text after strip, escape removal and
\* quote removal: Number of its value when the text matches the integer
\* pattern; otherwise, when it matches the range pattern, NumberRange of the
\* lower and upper group, with step 1 when the step group is absent and the
\* value of the step group (which may be 1 as well) when it is present;
\* otherwise Word of the text.  Without a current target nothing is appended.
C11_TokenClassification ==
    [][ EventStep("word") =>
          LET t == WordText(Last(trace').raw)
          IN IF err' # "" THEN heap' = heap /\ _sequences = <<>>
             ELSE /\ OneLeafAppended
                  /\ IF NUMBER_PATTERN(t)
                     THEN AppendedLeaf = Number(IntVal(t))
                     ELSE IF NUMBER_RANGE_PATTERN(t)
                     THEN \E m \in RangeSplits(t) :
                            LET stop == IF m[2] = 0 THEN Len(t) + 1 ELSE m[2]
                            IN /\ AppendedLeaf.kind = "NumberRange"
                               /\ AppendedLeaf.args[1] = IntVal(SubSeq(t, 1, m[1] - 1))
                               /\ AppendedLeaf.args[2] = IntVal(SubSeq(t, m[1] + 2, stop - 1))
                               /\ AppendedLeaf.args[3] =
                                      IF m[2] = 0 THEN 1
                                      ELSE IntVal(SubSeq(t, m[2] + 2, Len(t)))
                     ELSE AppendedLeaf = Word(Text(t))
      ]_vars

\* C11 witness: a token with a step group other than 1 became a NumberRange.
C11_Witness ==
    /\ LastEvent("word") /\ err = "" /\ _sequences # <<>>
    /\ LET leaf == Last(heap[Last(_sequences)].items)
       IN leaf.kind = "NumberRange" /\ leaf.args[3] = 2

\* C12: every sealed sentence has a root of kind GROUP.
C12_SentenceRootIsGroup ==
    \A i \in 1..Len(sentences) : heap[sentences[i]].type = GROUP


\* C13: while no error has been raised, the top of the stack is not a
\* marker, every marker is immediately followed by a Sequence (so no two
\* markers are adjacent), and the current target is missing only when the
\* stack is empty.
C13_MarkerFollowedBySequence ==
    err = "" =>
        /\ \A i \in 1..Len(_sequences) :
               _sequences[i] = GROUP_MARKER =>
                   i < Len(_sequences) /\ _sequences[i + 1] # GROUP_MARKER
        /\ last_sequence(_sequences).ok <=> _sequences # <<>>

\* C13 witness: two scopes are open inside a sentence, the inner one opened
\* right after the outer one, and an event has closed a third.
C13_Witness ==
    /\ err = ""
    /\ Count(GROUP_MARKER, _sequences) = 2
    /\ \E i \in 1..Len(trace) : trace[i].ev \in {"end-group", "end-optional"}
    /\ Len(_sequences) = 5


\* A step of one of the two handlers that call _pop_group.
ScopeEndStep == EventStep("end-group") \/ EventStep("end-optional")

\* C14: at an end-group or end-optional event whose stack holds a marker,
\* the stack is left equal to the prefix strictly below the topmost marker
\* and the popped Sequence, the one directly above that marker, is what the
\* handler appends to the new current target (it fails with "No target
\* sequence" when that prefix is empty).  With fewer than two entries, or
\* with no marker, the handler fails and appends nothing.
C14_PopScope ==
    [][ (ScopeEndStep /\ err = "") =>
          IF HasMarker(_sequences)
          THEN LET m == TopMarker(_sequences)
               IN /\ _sequences' = SubSeq(_sequences, 1, m - 1)
                  /\ IF m = 1 THEN err' = "No target sequence"
                     ELSE /\ err' = ""
                          /\ Last(heap'[_sequences[m - 1]].items) = SeqRef(_sequences[m + 1])
          ELSE /\ err' = (IF Len(_sequences) < 2 THEN "Bad sequence stack" ELSE "IndexError")
               /\ heap' = heap /\ sentences' = sentences
      ]_vars

\* C14 witness: an end-group event removed its scope together with the
\* branch a separator had pushed in it.
C14_Witness ==
    /\ Len(trace) = 5 /\ err = ""
    /\ trace[2].ev = "start-group" /\ trace[4].ev = "alt" /\ trace[5].ev = "end-group"
    /\ _sequences = <<1>>


\* C15: at a separator whose stack holds a marker, the scope is the sequence
\* directly above the topmost marker.  A scope that is not an ALTERNATIVE and
\* holds n >= 1 items becomes an ALTERNATIVE of a new GROUP of these n items
\* in order and a fresh empty GROUP; with 0 items it becomes an ALTERNATIVE
\* of the fresh empty GROUP alone; a scope that is an ALTERNATIVE already
\* keeps its items and gets the fresh empty GROUP appended.  The stack grows
\* by exactly one entry, the fresh GROUP, which is the new current target.
C15_AltStep ==
    [][ (EventStep("alt") /\ err = "" /\ HasMarker(_sequences)) =>
          LET scope == _sequences[TopMarker(_sequences) + 1]
              fresh == Last(_sequences')
              old   == heap[scope]
          IN /\ err' = ""
             /\ _sequences' = Append(_sequences, fresh)
             /\ fresh \in (Len(heap) + 1)..Len(heap')
             /\ heap'[fresh] = Sequence(GROUP, <<>>)
             /\ last_sequence(_sequences').seq = fresh
             /\ heap'[scope].type = ALTERNATIVE
             /\ IF old.type = ALTERNATIVE
                THEN /\ heap'[scope].items = Append(old.items, SeqRef(fresh))
                     /\ Len(heap') = Len(heap) + 1
                ELSE IF old.items = <<>>
                THEN /\ heap'[scope].items = <<SeqRef(fresh)>>
                     /\ Len(heap') = Len(heap) + 1
                ELSE /\ Len(heap') = Len(heap) + 2
                     /\ Len(heap'[scope].items) = 2
                     /\ heap'[scope].items[2] = SeqRef(fresh)
                     /\ heap'[scope].items[1].kind = "Sequence"
                     /\ heap'[scope].items[1].ref \in (Len(heap) + 1)..Len(heap')
                     /\ heap'[scope].items[1].ref # fresh
                     /\ heap'[heap'[scope].items[1].ref] = Sequence(GROUP, old.items)
      ]_vars

\* C15 witness: in one group a separator converted a scope holding one word
\* and a second separator appended a branch to the ALTERNATIVE it had become.
C15_Witness ==
    /\ err = "" /\ HasMarker(_sequences) /\ LastEvent("alt")
    /\ Tree(heap, _sequences[TopMarker(_sequences) + 1])
           = AlternativeOf(<<GroupOf(<<Word("a")>>), GroupOf(<<>>), GroupOf(<<>>)>>)


\* The position in tr of the start-group or start-optional event that an
\* end event dispatched next would close, 0 when there is none: the last
\* start event with as many end events as start events after it.
RECURSIVE MatchingStart(_, _, _)
MatchingStart(tr, k, depth) ==
    IF k = 0 THEN 0
    ELSE IF tr[k].ev \in {"end-group", "end-optional"}
         THEN MatchingStart(tr, k - 1, depth + 1)
    ELSE IF tr[k].ev \in {"start-group", "start-optional"}
         THEN IF depth = 0 THEN k ELSE MatchingStart(tr, k - 1, depth - 1)
    ELSE MatchingStart(tr, k - 1, depth)

\* self._sequences as event k of the trace found it; the next event finds
\* the stack as it is.
StackBefore(k) == IF k <= Len(stacks) THEN stacks[k] ELSE _sequences

\* C16: when an end-group or end-optional event closes a scope of an open
\* sentence, the handler succeeds, the stack is again what it was just
\* before the matching start event, the sequence that was the current target
\* then is the current target again, and its last item is the closed node,
\* the Sequence the start event had pushed; whatever separators and nested
\* scopes came in between.
C16_ScopeDiscipline ==
    [][ ( /\ ScopeEndStep /\ err = "" /\ _sentence # 0
          /\ MatchingStart(trace, Len(trace), 0) # 0 ) =>
          LET k      == MatchingStart(trace, Len(trace), 0)
              atOpen == StackBefore(k)
              closed == Last(StackBefore(k + 1))
          IN /\ err' = ""
             /\ _sequences' = atOpen
             /\ last_sequence(atOpen).ok
             /\ last_sequence(_sequences').seq = Last(atOpen)
             /\ Last(heap'[Last(atOpen)].items) = SeqRef(closed)
             /\ Len(heap'[Last(atOpen)].items) = Len(heap[Last(atOpen)].items) + 1
             /\ StackBefore(k + 1) = atOpen \o <<GROUP_MARKER, closed>>
      ]_vars

\* C16 witness: an end-optional event closed an optional that holds a nested
\* group and a separator.
C16_Witness ==
    /\ err = "" /\ LastEvent("end-optional") /\ Len(trace) = 6
    /\ trace[2].ev = "start-optional"
    /\ \E i, j \in 3..5 : trace[i].ev = "alt" /\ trace[j].ev = "end-group"
    /\ _sequences = stacks[2]


\* C17: a start-sentence event leaves the stack holding exactly a new empty
\* root, which is the open sentence, and leaves sentences as they are; an
\* end-sentence event with a sentence open appends that sentence's root to
\* sentences, leaves no sentence open and the stack empty; with no sentence
\* open it fails and leaves sentences as they are; no other step changes
\* the length of sentences.
C17_SentenceLifecycle ==
    [][ /\ EventStep("start-sentence") =>
            /\ err' = "" /\ sentences' = sentences
            /\ Len(heap') = Len(heap) + 1 /\ SubSeq(heap', 1, Len(heap)) = heap
            /\ heap'[Len(heap')] = Sequence(GROUP, <<>>)
            /\ _sequences' = <<Len(heap')>> /\ _sentence' = Len(heap')
        /\ (EventStep("end-sentence") /\ _sentence # 0) =>
            /\ err' = "" /\ sentences' = Append(sentences, _sentence)
            /\ _sentence' = 0 /\ _sequences' = <<>> /\ heap' = heap
        /\ (EventStep("end-sentence") /\ _sentence = 0) =>
            /\ err' # "" /\ sentences' = sentences
        /\ ~EventStep("end-sentence") => Len(sentences') = Len(sentences)
      ]_vars

\* C17 witness: an end-sentence event sealed a second sentence while scopes
\* of it were still on the stack.
C17_Witness ==
    /\ LastEvent("end-sentence") /\ err = "" /\ Len(sentences) = 2
    /\ _sentence = 0 /\ _sequences = <<>>
    /\ Len(Last(stacks)) > 1


\* An item that is a Sequence of kind GROUP.
IsGroupItem(h, item) == item.kind = "Sequence" /\ h[item.ref].type = GROUP
\* The items of a Sequence without a trailing Word("").
Branches(items) ==
    IF items # <<>> /\ Last(items) = WordEmpty THEN Front(items) ELSE items

\* C18: in every reachable state the Sequence on top of the stack, if any,
\* has kind GROUP; every item of an ALTERNATIVE that is still on the stack
\* (made by a separator) is a GROUP Sequence; and no ALTERNATIVE holds,
\* beside a trailing Word(""), two or more items that are not all GROUP
\* Sequences: the elements of a branch are never siblings in it.
C18_TargetIsGroup ==
    /\ (_sequences # <<>> /\ Last(_sequences) # GROUP_MARKER)
           => heap[Last(_sequences)].type = GROUP
    /\ \A id \in 1..Len(heap) :
           heap[id].type = ALTERNATIVE =>
               /\ OnStack(id) =>
                      \A i \in 1..Len(heap[id].items) : IsGroupItem(heap, heap[id].items[i])
               /\ LET bs == Branches(heap[id].items)
                  IN Len(bs) >= 2 => \A i \in 1..Len(bs) : IsGroupItem(heap, bs[i])

\* C18 witness: an end-optional event closed an optional of two branches,
\* one of them holding a closed group and a word.
C18_Witness ==
    /\ err = "" /\ LastEvent("end-optional")
    /\ \E id \in 1..Len(heap) :
          /\ heap[id].type = ALTERNATIVE /\ Len(heap[id].items) = 3
          /\ heap[id].items[3] = WordEmpty
          /\ \E i \in 1..2 :
                Tree(heap, heap[id].items[i].ref) = GroupOf(<<GroupOf(<<>>), Word("a")>>)


\* The events tr[k..] close the scopes of open (their kinds, innermost last)
\* in order and with the matching end event, hold every separator inside a
\* scope, and end with the end-sentence event.
RECURSIVE ScopesBalanced(_, _, _)
ScopesBalanced(tr, k, open) ==
    IF k > Len(tr) THEN FALSE
    ELSE CASE tr[k].ev = "end-sentence" -> k = Len(tr) /\ open = <<>>
           [] tr[k].ev = "start-sentence" -> FALSE
           [] tr[k].ev = "start-group" -> ScopesBalanced(tr, k + 1, Append(open, "group"))
           [] tr[k].ev = "start-optional" -> ScopesBalanced(tr, k + 1, Append(open, "optional"))
           [] tr[k].ev = "end-group" ->
                  open # <<>> /\ Last(open) = "group" /\ ScopesBalanced(tr, k + 1, Front(open))
           [] tr[k].ev = "end-optional" ->
                  open # <<>> /\ Last(open) = "optional" /\ ScopesBalanced(tr, k + 1, Front(open))
           [] tr[k].ev = "alt" -> open # <<>> /\ ScopesBalanced(tr, k + 1, open)
           [] OTHER -> ScopesBalanced(tr, k + 1, open)

\* A well-formed, balanced event stream of one sentence.
WellFormed(tr) ==
    tr # <<>> /\ tr[1].ev = "start-sentence" /\ ScopesBalanced(tr, 2, <<>>)

\* The references of the Sequences below a Sequence object, left to right.
RECURSIVE SeqIds(_, _)
RECURSIVE SeqIdsOfItems(_, _)
SeqIds(h, id) == SeqIdsOfItems(h, h[id].items)
SeqIdsOfItems(h, items) ==
    IF items = <<>> THEN <<>>
    ELSE (IF Head(items).kind = "Sequence"
          THEN <<Head(items).ref>> \o SeqIds(h, Head(items).ref)
          ELSE <<>>)
             \o SeqIdsOfItems(h, Tail(items))

\* A sequence of leaves without its Word("") items.
RECURSIVE NoEmptyWords(_)
NoEmptyWords(ls) ==
    IF ls = <<>> THEN <<>>
    ELSE (IF Head(ls) = WordEmpty THEN <<>> ELSE <<Head(ls)>>) \o NoEmptyWords(Tail(ls))

\* C19: when end-sentence seals the sentence of a well-formed, balanced
\* stream, every Sequence created since its start-sentence other than the
\* root is attached below the root exactly once (the root nowhere), and the
\* leaves of the tree from left to right, without the Word("") of
\* end-optional, are the leaves of the leaf events in event order.
C19_LeafConservation ==
    [][ (EventStep("end-sentence") /\ err' = "" /\ WellFormed(trace')) =>
          LET root == _sentence
              below == SeqIds(heap', root)
          IN /\ sentences' = Append(sentences, root)
             /\ \A id \in (root + 1)..Len(heap') : Count(id, below) = 1
             /\ Len(below) = Len(heap') - root
             /\ NoEmptyWords(Leaves(heap', root)) = LeavesOfTrace(trace')
      ]_vars

\* C19 witness: a sealed sentence of a well-formed stream with a leaf before
\* and a leaf after a separator.
C19_Witness ==
    /\ err = "" /\ LastEvent("end-sentence") /\ WellFormed(trace)
    /\ Len(sentences) = 1
    /\ \E k \in 3..(Len(trace) - 2) :
          /\ trace[k].ev = "alt"
          /\ trace[k - 1].ev \in LeafEvents /\ trace[k + 1].ev \in LeafEvents
    /\ Len(SeqIds(heap, sentences[1])) = 3

====
